---------------------------- MODULE Spec2Model ----------------------------
(***************************************************************************)
(* A model of tiny_utils: Unused_Funtion_Detector.py (the definition and   *)
(* usage collectors, analyze_project, is_excluded and main) and the sort   *)
(* choice of folder_size.py.                                               *)
(*                                                                         *)
(* Python strings are sequences of one-character strings, so that join,    *)
(* split, startswith, endswith, lower and string comparison are computed   *)
(* character by character as the interpreter computes them.  Python tuples *)
(* (qualified_name, filename, lineno) are TLA+ tuples, indexed from 1.     *)
(***************************************************************************)
EXTENDS Integers, Sequences, FiniteSets, TLC

VARIABLES
    fs,               \* the project folder on disk: files of the root, files of its one subfolder
    project_path,     \* main: what the user typed at the first prompt
    venv_input,       \* main: what the user typed at the second prompt
    pc,               \* position of the running program
    python_files,     \* analyze_project: list(get_python_files(...))
    idx,              \* analyze_project: position of the for loop in python_files
    definitions,      \* analyze_project / main: list of (qualified_name, filename, lineno)
    used_names,       \* analyze_project / main: set of names
    unused_functions, \* main: list of (qualified_name, filename, lineno)
    out,              \* everything printed so far, one record per print call
    exit_code,        \* -1 while running, then the process's exit status
    first_run,        \* what a first run of the program left behind, for a second run
    tree,             \* the module a collector is run on
    def_collector,    \* a FunctionDefCollector
    usage_collector,  \* a NameUsageCollector
    folder,           \* folder_size: the folder typed, with its entries in os.listdir order
    choice_typed,     \* folder_size: the integer typed at the sort prompt
    sort_choice,      \* folder_size: main's sort_choice when list_folder_contents is called
    contents          \* folder_size: what list_folder_contents returned

vars == <<fs, project_path, venv_input, pc, python_files, idx, definitions, used_names,
          unused_functions, out, exit_code, first_run, tree, def_collector,
          usage_collector, folder, choice_typed, sort_choice, contents>>

-----------------------------------------------------------------------------
(* Bounds of the model. *)

MaxFiles == 2
MaxClassDepth == 2
MaxDefNodes == 3
MaxUseNodes == 3
MaxEntries == 3

-----------------------------------------------------------------------------
(* Strings. *)

\* ord(): the code points of the characters the model uses.
Ord ==
    ("." :> 46) @@ ("/" :> 47) @@ ("B" :> 66) @@ ("C" :> 67) @@ ("D" :> 68) @@
    ("E" :> 69) @@ ("F" :> 70) @@ ("N" :> 78) @@ ("O" :> 79) @@ ("V" :> 86) @@
    ("_" :> 95) @@
    ("a" :> 97) @@ ("b" :> 98) @@ ("c" :> 99) @@ ("d" :> 100) @@ ("e" :> 101) @@
    ("f" :> 102) @@ ("g" :> 103) @@ ("h" :> 104) @@ ("i" :> 105) @@ ("l" :> 108) @@
    ("m" :> 109) @@ ("n" :> 110) @@ ("o" :> 111) @@ ("p" :> 112) @@ ("r" :> 114) @@
    ("s" :> 115) @@ ("t" :> 116) @@ ("u" :> 117) @@ ("v" :> 118) @@ ("x" :> 120) @@
    ("y" :> 121)

Chr(n) == CHOOSE c \in DOMAIN Ord : Ord[c] = n

\* str.lower(), one character: A-Z map to a-z, everything else to itself.
LowerChar(c) == IF Ord[c] >= 65 /\ Ord[c] <= 90 THEN Chr(Ord[c] + 32) ELSE c

lower(s) == [i \in 1..Len(s) |-> LowerChar(s[i])]

startswith(s, p) == Len(s) >= Len(p) /\ SubSeq(s, 1, Len(p)) = p

endswith(s, p) == Len(s) >= Len(p) /\ SubSeq(s, Len(s) - Len(p) + 1, Len(s)) = p

\* sep.join(parts)
RECURSIVE join(_, _)
join(sep, parts) ==
    IF parts = <<>> THEN <<>>
    ELSE IF Len(parts) = 1 THEN parts[1]
    ELSE parts[1] \o sep \o join(sep, Tail(parts))

\* s.split(sep) for a one-character sep: a left-to-right scan that closes a part
\* at every separator; the last part is what follows the last separator.
RECURSIVE SplitScan(_, _, _, _)
SplitScan(s, sep, done, cur) ==
    IF s = <<>> THEN Append(done, cur)
    ELSE IF Head(s) = sep THEN SplitScan(Tail(s), sep, Append(done, cur), <<>>)
    ELSE SplitScan(Tail(s), sep, done, Append(cur, Head(s)))

split(s, sep) == SplitScan(s, sep, <<>>, <<>>)

\* s < t on strings: at the first position where they differ the code points
\* decide; a proper prefix is smaller.
RECURSIVE StrLess(_, _)
StrLess(s, t) ==
    IF t = <<>> THEN FALSE
    ELSE IF s = <<>> THEN TRUE
    ELSE IF Head(s) # Head(t) THEN Ord[Head(s)] < Ord[Head(t)]
    ELSE StrLess(Tail(s), Tail(t))

\* The names and literals of the program and of the analysed projects.
DOT == "."
DUNDER == <<"_", "_">>
PY == <<".", "p", "y">>
COMMAND == <<"C", "o", "m", "m", "a", "n", "d">>
HANDLE == <<"h", "a", "n", "d", "l", "e">>
ADD_ARGUMENTS == <<"a", "d", "d", "_", "a", "r", "g", "u", "m", "e", "n", "t", "s">>
OTHER_METHOD == <<"o", "t", "h", "e", "r">>
OUTER == <<"O", "u", "t", "e", "r">>
FOO == <<"F", "o", "o">>
BAR == <<"b", "a", "r">>
INIT == <<"_", "_", "i", "n", "i", "t", "_", "_">>
HELPER == <<"h", "e", "l", "p", "e", "r">>

-----------------------------------------------------------------------------
(* Syntax trees: what ast.parse returns.  Every node is a record of the     *)
(* same shape; kids are the child nodes in the order generic_visit iterates *)
(* them.  name is ClassDef.name, FunctionDef.name, Name.id or               *)
(* Attribute.attr; ctx is "Load", "Store" or "Del" on Name and Attribute.   *)

Node(kind, name, lineno, ctx, kids) ==
    [kind |-> kind, name |-> name, lineno |-> lineno, ctx |-> ctx, kids |-> kids]

Module(body) == Node("Module", <<>>, 0, "", body)
ClassDef(name, lineno, body) == Node("ClassDef", name, lineno, "", body)
FunctionDef(name, lineno, body) == Node("FunctionDef", name, lineno, "", body)
AsyncFunctionDef(name, lineno, body) == Node("AsyncFunctionDef", name, lineno, "", body)
Name(id, ctx, lineno) == Node("Name", id, lineno, ctx, <<>>)
Attribute(value, attr, ctx, lineno) == Node("Attribute", attr, lineno, ctx, <<value>>)
Call(func, args, lineno) == Node("Call", <<>>, lineno, "", <<func>> \o args)
Assign(targets, value, lineno) == Node("Assign", <<>>, lineno, "", targets \o <<value>>)
Expr(value, lineno) == Node("Expr", <<>>, lineno, "", <<value>>)
Pass(lineno) == Node("Pass", <<>>, lineno, "", <<>>)

-----------------------------------------------------------------------------
(* FunctionDefCollector. *)

\* FunctionDefCollector(filename)
FunctionDefCollector(filename) ==
    [filename |-> filename, definitions |-> <<>>, class_stack |-> <<>>]

RECURSIVE DefVisit(_, _)

\* generic_visit of a FunctionDefCollector: visit every child in order.
RECURSIVE DefVisitAll(_, _)
DefVisitAll(self, nodes) ==
    IF nodes = <<>> THEN self
    ELSE DefVisitAll(DefVisit(self, Head(nodes)), Tail(nodes))

DefGenericVisit(self, node) == DefVisitAll(self, node.kids)

\* A visit_ClassDef that forgets the pop.
visit_ClassDef_NoPop(self, node) ==
    DefGenericVisit([self EXCEPT !.class_stack = Append(@, node.name)], node)

visit_ClassDef(self, node) ==
    LET pushed == [self EXCEPT !.class_stack = Append(@, node.name)]
        visited == DefGenericVisit(pushed, node)
    IN  [visited EXCEPT !.class_stack = SubSeq(@, 1, Len(@) - 1)]

visit_FunctionDef(self, node) ==
    LET qualified_name ==
            IF self.class_stack # <<>>
            THEN join(<<DOT>>, Append(self.class_stack, node.name))
            ELSE node.name
        recorded ==
            [self EXCEPT !.definitions =
                Append(@, <<qualified_name, self.filename, node.lineno>>)]
    IN  DefGenericVisit(recorded, node)

visit_AsyncFunctionDef(self, node) == visit_FunctionDef(self, node)

\* NodeVisitor.visit on a FunctionDefCollector: visit_<kind> when the class
\* defines it, generic_visit otherwise.
DefVisit(self, node) ==
    CASE node.kind = "ClassDef" -> visit_ClassDef(self, node)
      [] node.kind = "FunctionDef" -> visit_FunctionDef(self, node)
      [] node.kind = "AsyncFunctionDef" -> visit_AsyncFunctionDef(self, node)
      [] OTHER -> DefGenericVisit(self, node)

-----------------------------------------------------------------------------
(* NameUsageCollector. *)

NameUsageCollector == [used_names |-> {}]

RECURSIVE UseVisit(_, _)

RECURSIVE UseVisitAll(_, _)
UseVisitAll(self, nodes) ==
    IF nodes = <<>> THEN self
    ELSE UseVisitAll(UseVisit(self, Head(nodes)), Tail(nodes))

UseGenericVisit(self, node) == UseVisitAll(self, node.kids)

visit_Name(self, node) ==
    LET added ==
            IF node.ctx = "Load"
            THEN [self EXCEPT !.used_names = @ \cup {node.name}]
            ELSE self
    IN  UseGenericVisit(added, node)

\* A visit_Attribute that records the attribute and does not descend.
visit_Attribute_NoDescent(self, node) ==
    IF node.ctx = "Load"
    THEN [self EXCEPT !.used_names = @ \cup {node.name}]
    ELSE self

visit_Attribute(self, node) ==
    LET added ==
            IF node.ctx = "Load"
            THEN [self EXCEPT !.used_names = @ \cup {node.name}]
            ELSE self
    IN  UseGenericVisit(added, node)

UseVisit(self, node) ==
    CASE node.kind = "Name" -> visit_Name(self, node)
      [] node.kind = "Attribute" -> visit_Attribute(self, node)
      [] OTHER -> UseGenericVisit(self, node)

-----------------------------------------------------------------------------
(* Bounded sets of syntax trees for the two collectors. *)

\* A label is a node without its children and line.
Label(kind, name, ctx) == [kind |-> kind, name |-> name, ctx |-> ctx]

\* Statements that matter to FunctionDefCollector: classes C and D, a function
\* f, an asynchronous function g, and a compound statement that is neither.
DefLabels ==
    { Label("ClassDef", <<"C">>, ""), Label("ClassDef", <<"D">>, ""),
      Label("FunctionDef", <<"f">>, ""), Label("AsyncFunctionDef", <<"g">>, ""),
      Label("If", <<>>, "") }

\* Expressions that matter to NameUsageCollector: identifiers x and y and
\* attributes .x and .y in each of the three contexts, and an expression node
\* that is neither (a call, an assignment, a delete: it only has children).
Contexts == {"Load", "Store", "Del"}

UseLabels ==
    { Label("Name", id, ctx) : id \in {<<"x">>, <<"y">>}, ctx \in Contexts }
    \cup { Label("Attribute", id, ctx) : id \in {<<"x">>, <<"y">>}, ctx \in Contexts }
    \cup { Label("Expr", <<>>, "") }

\* The children a node of this kind can have: none for a Name; for an
\* Attribute exactly its value, which the parser always puts in Load context;
\* at least one for the other expression nodes.
ChildrenOK(label, kids) ==
    CASE label.kind = "Name" -> kids = <<>>
      [] label.kind = "Attribute" -> Len(kids) = 1 /\ kids[1].ctx \in {"Load", ""}
      [] label.kind = "Expr" -> Len(kids) >= 1
      [] OTHER -> TRUE

\* The forests (sequences of trees) with exactly n nodes over the labels L.
RECURSIVE ForestsOfSize(_, _)
TreesOfSize(L, k) ==
    { Node(p[1].kind, p[1].name, 0, p[1].ctx, p[2]) :
        p \in { q \in L \X ForestsOfSize(L, k - 1) : ChildrenOK(q[1], q[2]) } }

ForestsOfSize(L, n) ==
    IF n = 0 THEN { <<>> }
    ELSE UNION { { <<t>> \o rest : t \in TreesOfSize(L, k), rest \in ForestsOfSize(L, n - k) } :
                 k \in 1..n }

\* Line numbers: node.lineno grows in source order, here one node per line.
RECURSIVE NumberForest(_, _)
NumberForest(nodes, next) ==
    IF nodes = <<>> THEN [nodes |-> <<>>, next |-> next]
    ELSE LET n == Head(nodes)
             inner == NumberForest(n.kids, next + 1)
             rest == NumberForest(Tail(nodes), inner.next)
         IN  [nodes |-> <<[n EXCEPT !.lineno = next, !.kids = inner.nodes]>> \o rest.nodes,
              next |-> rest.next]

ModulesOver(L, maxNodes) ==
    { Module(NumberForest(f, 1).nodes) : f \in UNION { ForestsOfSize(L, n) : n \in 0..maxNodes } }

\* class C:
\*     def f(self):
\*         async def g(): pass
\*     class D:
\*         def f(self): pass
\* def f(): pass
SrcNested ==
    Module(<< ClassDef(<<"C">>, 1,
                << FunctionDef(<<"f">>, 2, << AsyncFunctionDef(<<"g">>, 3, <<Pass(3)>>) >>),
                   ClassDef(<<"D">>, 4, << FunctionDef(<<"f">>, 5, <<Pass(5)>>) >>) >>),
              FunctionDef(<<"f">>, 6, <<Pass(6)>>) >>)

\* x.y.x = y
\* del y.x
SrcTargets ==
    Module(<< Assign(<< Attribute(Attribute(Name(<<"x">>, "Load", 1), <<"y">>, "Load", 1),
                                  <<"x">>, "Store", 1) >>,
                     Name(<<"y">>, "Load", 1), 1),
              Node("Delete", <<>>, 2, "",
                   << Attribute(Name(<<"y">>, "Load", 2), <<"x">>, "Del", 2) >>) >>)

DefModules == ModulesOver(DefLabels, MaxDefNodes) \cup {SrcNested}
UseModules == ModulesOver(UseLabels, MaxUseNodes) \cup {SrcTargets}

A_PY == <<"a", ".", "p", "y">>
B_PY == <<"b", ".", "p", "y">>

-----------------------------------------------------------------------------
(* Values of the variables a specification does not use. *)

NoTree == Module(<<>>)
NoFs == [root |-> {}, sub |-> {}]

MainIdle ==
    /\ fs = NoFs /\ project_path = <<>> /\ venv_input = <<>>
    /\ python_files = <<>> /\ idx = 0 /\ definitions = <<>> /\ used_names = {}
    /\ unused_functions = <<>> /\ out = <<>> /\ exit_code = -1 /\ first_run = <<>>

CollectorsIdle ==
    /\ tree = NoTree
    /\ def_collector = FunctionDefCollector(<<>>)
    /\ usage_collector = NameUsageCollector

NoFolder == [exists |-> FALSE, readable |-> FALSE, entries |-> <<>>]

FolderIdle == folder = NoFolder /\ choice_typed = 0 /\ sort_choice = "" /\ contents = <<>>

mainVarsButOut == <<fs, project_path, venv_input, python_files, idx, definitions,
                    used_names, unused_functions, exit_code, first_run>>
mainVars == <<mainVarsButOut, out>>
collectorVars == <<tree, def_collector, usage_collector>>
folderVars == <<folder, choice_typed, sort_choice, contents>>

-----------------------------------------------------------------------------
(* The definition collector on its own: def_collector.visit(tree). *)

InitDefs ==
    /\ MainIdle /\ FolderIdle
    /\ pc = "parsed"
    /\ tree \in DefModules
    /\ def_collector = FunctionDefCollector(A_PY)
    /\ usage_collector = NameUsageCollector

CollectDefinitions ==
    /\ pc = "parsed"
    /\ def_collector' = DefVisit(def_collector, tree)
    /\ pc' = "visited"
    /\ UNCHANGED <<mainVars, folderVars, tree, usage_collector>>

SpecDefs == InitDefs /\ [][CollectDefinitions]_vars

(* The usage collector on its own: usage_collector.visit(tree). *)

InitUsage ==
    /\ MainIdle /\ FolderIdle
    /\ pc = "parsed"
    /\ tree \in UseModules
    /\ def_collector = FunctionDefCollector(A_PY)
    /\ usage_collector = NameUsageCollector

CollectUsages ==
    /\ pc = "parsed"
    /\ usage_collector' = UseVisit(usage_collector, tree)
    /\ pc' = "visited"
    /\ UNCHANGED <<mainVars, folderVars, tree, def_collector>>

SpecUsage == InitUsage /\ [][CollectUsages]_vars

-----------------------------------------------------------------------------
(* Definition Collector qualification. *)

IsFunction(n) == n.kind \in {"FunctionDef", "AsyncFunctionDef"}

\* The enclosing classes, outer to inner, each followed by a dot, then the name.
RECURSIVE Qualify(_, _)
Qualify(classes, name) ==
    IF classes = <<>> THEN name
    ELSE Head(classes) \o <<".">> \o Qualify(Tail(classes), name)

\* The definitions of a forest in source order, given the classes around it:
\* only a ClassDef adds to the classes of what it encloses.
RECURSIVE DefsIn(_, _, _)
DefsIn(nodes, classes, file) ==
    IF nodes = <<>> THEN <<>>
    ELSE LET n == Head(nodes)
             own == IF IsFunction(n)
                    THEN << <<Qualify(classes, n.name), file, n.lineno>> >>
                    ELSE <<>>
             inside == IF n.kind = "ClassDef" THEN Append(classes, n.name) ELSE classes
         IN  own \o DefsIn(n.kids, inside, file) \o DefsIn(Tail(nodes), classes, file)

HasDot(s) == \E i \in 1..Len(s) : s[i] = "."

\* C4: once a FunctionDefCollector has visited a module, its definitions are, in
\* source order, one (qualified_name, filename, lineno) per function or
\* asynchronous function definition, where qualified_name is the names of the
\* enclosing classes from the outermost to the innermost joined with dots and
\* followed by the function's own name (enclosing functions add nothing), and
\* its class stack is empty again.
C4_Qualification ==
    pc = "visited" =>
        /\ def_collector.definitions = DefsIn(tree.kids, <<>>, def_collector.filename)
        /\ def_collector.class_stack = <<>>

\* The module SrcNested: g, nested in the method C.f, is recorded as C.g; the
\* method of the class D inside C as C.D.f; and f, after the body of C, as f.
C4_Witness ==
    /\ pc = "visited"
    /\ tree = SrcNested
    /\ def_collector.definitions =
          << << <<"C", ".", "f">>, A_PY, 2 >>,
             << <<"C", ".", "g">>, A_PY, 3 >>,
             << <<"C", ".", "D", ".", "f">>, A_PY, 5 >>,
             << <<"f">>, A_PY, 6 >> >>
    /\ def_collector.class_stack = <<>>

-----------------------------------------------------------------------------
(* Usage Collector. *)

\* Every node of a forest.
RECURSIVE NodesOf(_)
NodesOf(nodes) ==
    IF nodes = <<>> THEN {}
    ELSE {Head(nodes)} \cup NodesOf(Head(nodes).kids) \cup NodesOf(Tail(nodes))

ReadNames(t) ==
    { n.name : n \in { m \in NodesOf(t.kids) : m.kind \in {"Name", "Attribute"} /\ m.ctx = "Load" } }

\* C5: once a NameUsageCollector has visited a module, its used_names is exactly
\* the ids of the Name nodes in Load context together with the attr of the
\* Attribute nodes in Load context, wherever they stand in the tree: below a
\* Store or Del target too, and never the name of a Store or Del node itself.
C5_UsageSet ==
    pc = "visited" =>
        usage_collector.used_names = ReadNames(tree)

\* x.y as a write target: y is not recorded, the base x, read, is.
C5_Witness ==
    /\ pc = "visited"
    /\ \E n \in NodesOf(tree.kids) :
          /\ n.kind = "Attribute" /\ n.ctx = "Store" /\ n.name = <<"y">>
          /\ n.kids[1].kind = "Name" /\ n.kids[1].ctx = "Load" /\ n.kids[1].name = <<"x">>
    /\ usage_collector.used_names = {<<"x">>}

-----------------------------------------------------------------------------
(* The analysed projects: a root folder with files a.py, b.py and n.txt, and *)
(* one subfolder Venv with a file c.py.  Paths are relative to the project   *)
(* folder, whose own path is a common prefix of every path and so changes no *)
(* comparison between them.                                                  *)

PROJECT == <<"p">>
NOT_A_DIR == <<"x">>
VENV_DIR == <<"V", "e", "n", "v">>
VENV_TYPED == <<"V", "E", "N", "V">>
C_PY == <<"c", ".", "p", "y">>
N_TXT == <<"n", ".", "t", "x", "t">>
XVAR == <<"x">>

\* def helper(): pass
SrcHelper == Module(<< FunctionDef(HELPER, 1, <<Pass(1)>>) >>)

\* from a import helper
\* helper()
SrcCallHelper ==
    Module(<< Node("ImportFrom", <<>>, 1, "", <<>>),
              Expr(Call(Name(HELPER, "Load", 2), <<>>, 2), 2) >>)

\* class Foo:
\*     def __init__(self): pass
\*     def bar(self): pass
\* def helper(): pass
SrcFoo ==
    Module(<< ClassDef(FOO, 1, << FunctionDef(INIT, 2, <<Pass(2)>>),
                                  FunctionDef(BAR, 3, <<Pass(3)>>) >>),
              FunctionDef(HELPER, 4, <<Pass(4)>>) >>)

\* def bar(): pass
\* bar()
SrcBar ==
    Module(<< FunctionDef(BAR, 1, <<Pass(1)>>),
              Expr(Call(Name(BAR, "Load", 2), <<>>, 2), 2) >>)

\* class Command:
\*     def handle(self): pass
\*     def add_arguments(self): pass
\*     async def other(self): pass
SrcCommand ==
    Module(<< ClassDef(COMMAND, 1, << FunctionDef(HANDLE, 2, <<Pass(2)>>),
                                      FunctionDef(ADD_ARGUMENTS, 3, <<Pass(3)>>),
                                      AsyncFunctionDef(OTHER_METHOD, 4, <<Pass(4)>>) >>) >>)

\* class Outer:
\*     class Command:
\*         def handle(self): pass
\* def handle(): pass
SrcOuter ==
    Module(<< ClassDef(OUTER, 1, << ClassDef(COMMAND, 2,
                                       << FunctionDef(HANDLE, 3, <<Pass(3)>>) >>) >>),
              FunctionDef(HANDLE, 4, <<Pass(4)>>) >>)

\* x.other()
\* x.bar = handle
\* x.__init__()
SrcAttrs ==
    Module(<< Expr(Call(Attribute(Name(XVAR, "Load", 1), OTHER_METHOD, "Load", 1), <<>>, 1), 1),
              Assign(<< Attribute(Name(XVAR, "Load", 2), BAR, "Store", 2) >>,
                     Name(HANDLE, "Load", 2), 2),
              Expr(Call(Attribute(Name(XVAR, "Load", 3), INIT, "Load", 3), <<>>, 3), 3) >>)

\* (an empty file)
SrcEmpty == Module(<<>>)

Sources == {SrcHelper, SrcCallHelper, SrcFoo, SrcBar, SrcCommand, SrcOuter, SrcAttrs, SrcEmpty}

\* What a file holds: text that parses to a tree, bytes that cannot be read or
\* decoded, or text that does not parse.
FileContents ==
    { [status |-> "ok", tree |-> t] : t \in Sources }
    \cup { [status |-> "unreadable", tree |-> NoTree], [status |-> "syntax_error", tree |-> NoTree] }

File(name, content) == [name |-> name, status |-> content.status, tree |-> content.tree]

\* The sets of files with the given names, any subset of them present.
RECURSIVE FileSets(_)
FileSets(names) ==
    IF names = {} THEN { {} }
    ELSE LET n == CHOOSE x \in names : TRUE
             rest == FileSets(names \ {n})
         IN  rest \cup { r \cup {File(n, c)} : r \in rest, c \in FileContents }

TextFiles == { {}, {File(N_TXT, [status |-> "ok", tree |-> NoTree])} }

FileSystems ==
    { [root |-> r \cup t, sub |-> s] :
        r \in FileSets({A_PY, B_PY}), s \in FileSets({C_PY}), t \in TextFiles }

CountPy(f) == Cardinality({ x \in f.root \cup f.sub : endswith(x.name, PY) })

-----------------------------------------------------------------------------
(* get_python_files *)

\* Every order in which a directory listing can return the files.
RECURSIVE Orders(_)
Orders(S) ==
    IF S = {} THEN { <<>> }
    ELSE UNION { { <<x>> \o o : o \in Orders(S \ {x}) } : x \in S }

\* os.path.join(root, file) below the project folder.
PathIn(dir, name) == IF dir = <<>> THEN name ELSE dir \o <<"/">> \o name

\* The lists list(get_python_files(project_path, venv_name)) can be (venv_name
\* is None, here the empty string, when nothing was typed; both are false in
\* "if venv_name"): os.walk
\* yields the root first, then the subfolders left in dirs; each listing comes
\* in an order of the file system's choosing.
get_python_files(f, venv_name) ==
    LET dirs == IF venv_name # <<>>
                THEN { d \in {VENV_DIR} : lower(d) # lower(venv_name) }
                ELSE {VENV_DIR}
        rootPy == { PathIn(<<>>, x.name) : x \in { y \in f.root : endswith(y.name, PY) } }
        subPy == IF VENV_DIR \in dirs
                 THEN { PathIn(VENV_DIR, x.name) : x \in { y \in f.sub : endswith(y.name, PY) } }
                 ELSE {}
    IN  { a \o b : a \in Orders(rootPy), b \in Orders(subPy) }

\* The file a path names.
FileAt(f, path) ==
    CHOOSE x \in f.root \cup f.sub :
        path = (IF x \in f.root THEN PathIn(<<>>, x.name) ELSE PathIn(VENV_DIR, x.name))

-----------------------------------------------------------------------------
(* is_excluded *)

\* An is_excluded that tests the qualified name for the dunder pattern.
is_excluded_QualifiedDunder(qualified_name) ==
    LET parts == split(qualified_name, DOT)
        simple_name == parts[Len(parts)]
    IN  IF startswith(qualified_name, DUNDER) /\ endswith(qualified_name, DUNDER) THEN TRUE
        ELSE IF Len(parts) >= 2 /\ parts[1] = COMMAND /\ simple_name \in {HANDLE, ADD_ARGUMENTS}
        THEN TRUE
        ELSE FALSE

\* An is_excluded that looks for the Command class next to the method.
is_excluded_InnermostClass(qualified_name) ==
    LET parts == split(qualified_name, DOT)
        simple_name == parts[Len(parts)]
    IN  IF startswith(simple_name, DUNDER) /\ endswith(simple_name, DUNDER) THEN TRUE
        ELSE IF Len(parts) >= 2 /\ parts[Len(parts) - 1] = COMMAND
                /\ simple_name \in {HANDLE, ADD_ARGUMENTS}
        THEN TRUE
        ELSE FALSE

is_excluded(qualified_name) ==
    LET parts == split(qualified_name, DOT)
        simple_name == parts[Len(parts)]
    IN  IF startswith(simple_name, DUNDER) /\ endswith(simple_name, DUNDER) THEN TRUE
        ELSE IF Len(parts) >= 2 /\ parts[1] = COMMAND /\ simple_name \in {HANDLE, ADD_ARGUMENTS}
        THEN TRUE
        ELSE FALSE

-----------------------------------------------------------------------------
(* main and analyze_project *)

\* One print call.  name, file and lineno are what the line interpolates.
Line(kind, name, file, lineno) ==
    [kind |-> kind, name |-> name, file |-> file, lineno |-> lineno]
Msg(kind) == Line(kind, <<>>, <<>>, 0)

isdir(path) == path = PROJECT

\* A key comparison that looks at the line only.
KeyLess_LineOnly(x, y) == x[3] < y[3]

\* key(x) < key(y) for key = lambda x: (x[1], x[2]) (0-based): tuples compare
\* by their first differing component.
KeyLess(x, y) == IF x[2] # y[2] THEN StrLess(x[2], y[2]) ELSE x[3] < y[3]

\* sorted(seq, key=...): stable, so an element goes after every element already
\* placed whose key is not greater.
RECURSIVE InsertSorted(_, _)
InsertSorted(placed, x) ==
    IF placed = <<>> THEN <<x>>
    ELSE IF KeyLess(x, Head(placed)) THEN <<x>> \o placed
    ELSE <<Head(placed)>> \o InsertSorted(Tail(placed), x)

RECURSIVE SortInto(_, _)
SortInto(placed, rest) ==
    IF rest = <<>> THEN placed
    ELSE SortInto(InsertSorted(placed, Head(rest)), Tail(rest))

sorted(seq) == SortInto(<<>>, seq)

\* A selection that looks the qualified name up in used_names.
Unused_QualifiedLookup(defs, used) ==
    SelectSeq(defs, LAMBDA d : ~is_excluded(d[1]) /\ d[1] \notin used)

\* main, the loop over definitions: the definitions that are not excluded and
\* whose simple name is not in used_names, in the order of definitions.
Unused(defs, used) ==
    SelectSeq(defs, LAMBDA d :
        LET parts == split(d[1], DOT)
        IN  ~is_excluded(d[1]) /\ parts[Len(parts)] \notin used)

AfterFile == IF idx + 1 > Len(python_files) THEN "returned" ELSE "loop"

\* main: the path typed is empty or no directory.
MainInvalidPath ==
    /\ pc = "start"
    /\ project_path = <<>> \/ ~isdir(project_path)
    /\ out' = out \o << Msg("banner"), Msg("invalid_path") >>
    /\ exit_code' = 1
    /\ pc' = "done"
    /\ UNCHANGED <<fs, project_path, venv_input, python_files, idx, definitions, used_names,
                   unused_functions, first_run, collectorVars, folderVars>>

\* main up to the call of analyze_project, and analyze_project up to its loop.
MainAnalyze ==
    /\ pc = "start"
    /\ ~(project_path = <<>> \/ ~isdir(project_path))
    /\ \E files \in get_python_files(fs, venv_input) :
          /\ python_files' = files
          /\ IF files = <<>>
             THEN /\ out' = out \o << Msg("banner"), Msg("analyzing"), Msg("no_python_files") >>
                  /\ pc' = "returned"
             ELSE /\ out' = out \o << Msg("banner"), Msg("analyzing") >>
                  /\ pc' = "loop"
    /\ idx' = 1
    /\ definitions' = <<>>
    /\ used_names' = {}
    /\ UNCHANGED <<fs, project_path, venv_input, unused_functions, exit_code, first_run,
                   collectorVars, folderVars>>

\* One turn of the loop: open() or read() raises.
ReadError ==
    /\ pc = "loop"
    /\ FileAt(fs, python_files[idx]).status = "unreadable"
    /\ out' = Append(out, Line("error_reading", <<>>, python_files[idx], 0))
    /\ idx' = idx + 1
    /\ pc' = AfterFile
    /\ UNCHANGED <<fs, project_path, venv_input, python_files, definitions, used_names,
                   unused_functions, exit_code, first_run, collectorVars, folderVars>>

\* A parse error that ends the loop.
ParseError_Abort ==
    /\ pc = "loop"
    /\ FileAt(fs, python_files[idx]).status = "syntax_error"
    /\ out' = Append(out, Line("error_parsing", <<>>, python_files[idx], 0))
    /\ idx' = idx + 1
    /\ pc' = "returned"
    /\ UNCHANGED <<fs, project_path, venv_input, python_files, definitions, used_names,
                   unused_functions, exit_code, first_run, collectorVars, folderVars>>

\* One turn of the loop: ast.parse raises.
ParseError ==
    /\ pc = "loop"
    /\ FileAt(fs, python_files[idx]).status = "syntax_error"
    /\ out' = Append(out, Line("error_parsing", <<>>, python_files[idx], 0))
    /\ idx' = idx + 1
    /\ pc' = AfterFile
    /\ UNCHANGED <<fs, project_path, venv_input, python_files, definitions, used_names,
                   unused_functions, exit_code, first_run, collectorVars, folderVars>>

\* A turn that assigns the file's names to used_names instead of adding them.
CollectFile_Overwrite ==
    /\ pc = "loop"
    /\ FileAt(fs, python_files[idx]).status = "ok"
    /\ LET file_path == python_files[idx]
           parsed == FileAt(fs, file_path).tree
           collected_defs == DefVisit(FunctionDefCollector(file_path), parsed)
           collected_uses == UseVisit(NameUsageCollector, parsed)
       IN  /\ definitions' = definitions \o collected_defs.definitions
           /\ used_names' = collected_uses.used_names
    /\ idx' = idx + 1
    /\ pc' = AfterFile
    /\ UNCHANGED <<fs, project_path, venv_input, python_files, unused_functions, out,
                   exit_code, first_run, collectorVars, folderVars>>

\* One turn of the loop: the file is read and parsed and both collectors run.
CollectFile ==
    /\ pc = "loop"
    /\ FileAt(fs, python_files[idx]).status = "ok"
    /\ LET file_path == python_files[idx]
           parsed == FileAt(fs, file_path).tree
           collected_defs == DefVisit(FunctionDefCollector(file_path), parsed)
           collected_uses == UseVisit(NameUsageCollector, parsed)
       IN  /\ definitions' = definitions \o collected_defs.definitions
           /\ used_names' = used_names \cup collected_uses.used_names
    /\ idx' = idx + 1
    /\ pc' = AfterFile
    /\ UNCHANGED <<fs, project_path, venv_input, python_files, unused_functions, out,
                   exit_code, first_run, collectorVars, folderVars>>

\* A main that reports no definitions as a failure.
MainNoDefinitions_Exit1 ==
    /\ pc = "returned"
    /\ definitions = <<>>
    /\ out' = Append(out, Msg("no_definitions"))
    /\ exit_code' = 1
    /\ pc' = "done"
    /\ UNCHANGED <<fs, project_path, venv_input, python_files, idx, definitions, used_names,
                   unused_functions, first_run, collectorVars, folderVars>>

\* main after analyze_project returned no definitions.
MainNoDefinitions ==
    /\ pc = "returned"
    /\ definitions = <<>>
    /\ out' = Append(out, Msg("no_definitions"))
    /\ exit_code' = 0
    /\ pc' = "done"
    /\ UNCHANGED <<fs, project_path, venv_input, python_files, idx, definitions, used_names,
                   unused_functions, first_run, collectorVars, folderVars>>

\* main after analyze_project returned definitions: the unused ones are
\* selected and printed in sorted order, or the message that there are none.
MainReport ==
    /\ pc = "returned"
    /\ definitions # <<>>
    /\ LET unused == Unused(definitions, used_names)
           ordered == sorted(unused)
       IN  /\ unused_functions' = unused
           /\ out' = IF unused # <<>>
                     THEN out \o <<Msg("unused_header")>>
                              \o [i \in 1..Len(ordered) |->
                                    Line("entry", ordered[i][1], ordered[i][2], ordered[i][3])]
                     ELSE Append(out, Msg("no_unused"))
    /\ exit_code' = 0
    /\ pc' = "done"
    /\ UNCHANGED <<fs, project_path, venv_input, python_files, idx, definitions, used_names,
                   first_run, collectorVars, folderVars>>

\* The program is started again on the same folder with the same answers.
Rerun ==
    /\ pc = "done"
    /\ first_run = <<>>
    /\ first_run' = << [out |-> out, definitions |-> definitions, used_names |-> used_names,
                        python_files |-> python_files, exit_code |-> exit_code] >>
    /\ pc' = "start"
    /\ python_files' = <<>>
    /\ idx' = 0
    /\ definitions' = <<>>
    /\ used_names' = {}
    /\ unused_functions' = <<>>
    /\ out' = <<>>
    /\ exit_code' = -1
    /\ UNCHANGED <<fs, project_path, venv_input, collectorVars, folderVars>>

Init ==
    /\ CollectorsIdle /\ FolderIdle
    /\ pc = "start"
    /\ project_path \in {<<>>, NOT_A_DIR, PROJECT}
    /\ fs \in { f \in FileSystems : CountPy(f) <= MaxFiles }
    /\ venv_input \in {<<>>, VENV_TYPED}
    /\ isdir(project_path) \/ (fs = NoFs /\ venv_input = <<>>)
    /\ python_files = <<>> /\ idx = 0 /\ definitions = <<>> /\ used_names = {}
    /\ unused_functions = <<>> /\ out = <<>> /\ exit_code = -1 /\ first_run = <<>>

Next ==
    \/ MainInvalidPath
    \/ MainAnalyze
    \/ ReadError
    \/ ParseError
    \/ CollectFile
    \/ MainNoDefinitions
    \/ MainReport

Spec == Init /\ [][Next]_vars

NextRerun == Next \/ Rerun

SpecRerun == Init /\ [][NextRerun]_vars

-----------------------------------------------------------------------------
(* What the claims about main speak of. *)

\* The position of the last dot of s, 0 when it has none.
LastDot(s) ==
    IF HasDot(s)
    THEN CHOOSE i \in 1..Len(s) : s[i] = "." /\ \A j \in (i + 1)..Len(s) : s[j] # "."
    ELSE 0

FirstDot(s) ==
    IF HasDot(s)
    THEN CHOOSE i \in 1..Len(s) : s[i] = "." /\ \A j \in 1..(i - 1) : s[j] # "."
    ELSE Len(s) + 1

\* The last and the first dot-segment of a qualified name.
SimpleName(qn) == SubSeq(qn, LastDot(qn) + 1, Len(qn))
FirstSegment(qn) == SubSeq(qn, 1, FirstDot(qn) - 1)

Dunder(s) ==
    /\ Len(s) >= 2
    /\ s[1] = "_" /\ s[2] = "_"
    /\ s[Len(s) - 1] = "_" /\ s[Len(s)] = "_"

Count(seq, x) == Cardinality({ i \in 1..Len(seq) : seq[i] = x })

SameMultiset(a, b) ==
    /\ Len(a) = Len(b)
    /\ \A i \in 1..Len(a) : Count(a, a[i]) = Count(b, a[i])

\* The printed list of unused definitions, as (qualified_name, file, line).
Entries(o) ==
    LET lines == SelectSeq(o, LAMBDA l : l.kind = "entry")
    IN  [i \in 1..Len(lines) |-> <<lines[i].name, lines[i].file, lines[i].lineno>>]

Emitted(o, kind) == Count([i \in 1..Len(o) |-> o[i].kind], kind)

Finished == pc = "done" /\ isdir(project_path)

\* Qualified names up to MaxClassDepth classes deep.
RECURSIVE SeqsUpTo(_, _)
SeqsUpTo(S, n) ==
    IF n = 0 THEN { <<>> }
    ELSE SeqsUpTo(S, n - 1) \cup { Append(q, x) : q \in SeqsUpTo(S, n - 1), x \in S }

SimpleNames ==
    { HANDLE, ADD_ARGUMENTS, OTHER_METHOD, BAR, COMMAND, INIT,
      <<"_", "_">>, <<"_", "_", "_">>, <<"_", "x", "_">>, <<"_", "_", "x">>,
      <<"x", "_", "_">>, <<"_", "_", "x", "_">> }

QualNames ==
    { Qualify(cs, n) : cs \in SeqsUpTo({COMMAND, OUTER, FOO}, MaxClassDepth), n \in SimpleNames }

\* C1: when a run has finished, a definition is in the printed report exactly
\* when is_excluded is false of its qualified name and the last dot-segment of
\* that name is not in used_names; it is then printed as often as it was
\* collected (once), with its file and line, and nothing else is printed.
C1_Reconciliation ==
    Finished =>
        /\ \A i \in 1..Len(definitions) :
              LET d == definitions[i]
              IN  Count(Entries(out), d) =
                      IF ~is_excluded(d[1]) /\ SimpleName(d[1]) \notin used_names
                      THEN Count(definitions, d)
                      ELSE 0
        /\ \A i \in 1..Len(definitions) : Count(definitions, definitions[i]) = 1
        /\ \A i \in 1..Len(Entries(out)) : Count(definitions, Entries(out)[i]) >= 1

\* Foo.bar is not reported because a top-level bar is called somewhere, while
\* helper, referenced nowhere, is reported once with its file and line.
C1_Witness ==
    /\ Finished
    /\ \E i \in 1..Len(definitions) :
          /\ definitions[i][1] = FOO \o <<".">> \o BAR
          /\ Count(Entries(out), definitions[i]) = 0
    /\ \E i \in 1..Len(definitions) : definitions[i][1] = BAR
    /\ BAR \in used_names
    /\ \E i \in 1..Len(definitions) :
          /\ definitions[i][1] = HELPER /\ definitions[i][3] = 4
          /\ Count(Entries(out), definitions[i]) = 1
    /\ HELPER \notin used_names

C2_Pure == \A qn \in QualNames : Dunder(SimpleName(qn)) => is_excluded(qn)

\* C2: is_excluded is true of every qualified name whose last dot-segment
\* starts with two underscores and ends with two underscores, under any class
\* nesting, and no finished run has printed a definition with such a name,
\* whether or not the name is in used_names.
C2_DunderExcluded ==
    /\ C2_Pure
    /\ Finished =>
          /\ \A i \in 1..Len(definitions) :
                Dunder(SimpleName(definitions[i][1])) =>
                    /\ is_excluded(definitions[i][1])
                    /\ Count(Entries(out), definitions[i]) = 0
          /\ \A i \in 1..Len(Entries(out)) : ~Dunder(SimpleName(Entries(out)[i][1]))

\* Foo.__init__ is referenced nowhere, other definitions are reported, and
\* Foo.__init__ is not among them.
C2_Witness ==
    /\ Finished
    /\ \E i \in 1..Len(definitions) : definitions[i][1] = FOO \o <<".">> \o INIT
    /\ INIT \notin used_names
    /\ Len(Entries(out)) >= 1

IsCommandHook(qn) ==
    FirstSegment(qn) = COMMAND /\ SimpleName(qn) \in {HANDLE, ADD_ARGUMENTS}

C3_Pure ==
    \A qn \in QualNames : ~Dunder(SimpleName(qn)) => (is_excluded(qn) <=> IsCommandHook(qn))

Reported(qn) == \E i \in 1..Len(Entries(out)) : Entries(out)[i][1] = qn
Defined(qn) == \E i \in 1..Len(definitions) : definitions[i][1] = qn

LexLess(a, b) ==
    \E k \in 1..Len(b) :
        /\ k - 1 <= Len(a)
        /\ \A j \in 1..(k - 1) : a[j] = b[j]
        /\ (k > Len(a) \/ Ord[a[k]] < Ord[b[k]])

\* C6: the printed list is in ascending order of (file, line) and is a
\* rearrangement of the unused definitions main selected.
C6_ReportOrder ==
    Finished /\ unused_functions # <<>> =>
        /\ \A i \in 1..(Len(Entries(out)) - 1) :
              LET a == Entries(out)[i]
                  b == Entries(out)[i + 1]
              IN  LexLess(a[2], b[2]) \/ (a[2] = b[2] /\ a[3] <= b[3])
        /\ SameMultiset(Entries(out), unused_functions)

\* A report over two files and two lines of one file that had to be reordered.
C6_Witness ==
    /\ Finished
    /\ Len(Entries(out)) >= 3
    /\ Entries(out) # unused_functions
    /\ \E i, j \in 1..Len(Entries(out)) :
          /\ Entries(out)[i][2] = Entries(out)[j][2]
          /\ Entries(out)[i][3] < Entries(out)[j][3]
    /\ \E i, j \in 1..Len(Entries(out)) : Entries(out)[i][2] # Entries(out)[j][2]

\* What the files of a list that can be read and parsed hold, in list order.
OkFiles(paths) == SelectSeq(paths, LAMBDA q : FileAt(fs, q).status = "ok")

RECURSIVE DefsOfFiles(_)
DefsOfFiles(paths) ==
    IF paths = <<>> THEN <<>>
    ELSE DefsIn(FileAt(fs, Head(paths)).tree.kids, <<>>, Head(paths)) \o DefsOfFiles(Tail(paths))

NamesOfFiles(paths) == UNION { ReadNames(FileAt(fs, paths[i]).tree) : i \in 1..Len(paths) }

C7_State ==
    pc \in {"loop", "returned", "done"} /\ isdir(project_path) =>
        LET seen == SubSeq(python_files, 1, idx - 1)
        IN  /\ definitions = DefsOfFiles(OkFiles(seen))
            /\ used_names = NamesOfFiles(OkFiles(seen))
            /\ pc # "loop" => idx = Len(python_files) + 1

C7_Step ==
    pc = "loop" /\ FileAt(fs, python_files[idx]).status # "ok" =>
        /\ definitions' = definitions
        /\ used_names' = used_names
        /\ python_files' = python_files
        /\ idx' = idx + 1
        /\ pc' = IF idx' <= Len(python_files) THEN "loop" ELSE "returned"

\* C7: a file that cannot be read or parsed leaves definitions and used_names
\* as they were and the loop goes on to the next file, each file being taken
\* once; so at every point of the loop, and when it has ended with every file
\* taken, definitions and used_names are what the files taken so far that could
\* be read and parsed hold, as if the failing files were not in the list.
C7_ErrorIsolation == [](C7_State) /\ [][C7_Step]_vars

\* A run whose first file failed and whose second file gave definitions.
C7_Witness ==
    /\ Finished
    /\ Len(python_files) = 2
    /\ FileAt(fs, python_files[1]).status # "ok"
    /\ FileAt(fs, python_files[2]).status = "ok"
    /\ definitions # <<>>
    /\ used_names # {}

\* The lines of a run's output that make up its report.
ReportOf(o) ==
    SelectSeq(o, LAMBDA l :
        l.kind \in {"no_python_files", "no_definitions", "no_unused", "unused_header", "entry"})

IsPrefix(a, b) == Len(a) <= Len(b) /\ SubSeq(b, 1, Len(a)) = a

C8_State ==
    pc = "done" /\ first_run # <<>> =>
        /\ SameMultiset(definitions, first_run[1].definitions)
        /\ used_names = first_run[1].used_names
        /\ ReportOf(out) = ReportOf(first_run[1].out)
        /\ exit_code = first_run[1].exit_code

C8_Step ==
    pc = "loop" => used_names \subseteq used_names' /\ IsPrefix(definitions, definitions')

\* C8: a second run over the same files, in whatever order it takes them,
\* ends with the same definitions (as a multiset), the same used_names and the
\* same report, line for line, as the first; and while the loop runs
\* used_names and definitions only grow.
C8_OrderIndependence == [](C8_State) /\ [][C8_Step]_vars

\* Two runs that took two parsed files in different orders and printed a list.
C8_Witness ==
    /\ pc = "done" /\ first_run # <<>>
    /\ Len(python_files) = 2
    /\ python_files # first_run[1].python_files
    /\ definitions # first_run[1].definitions
    /\ used_names # {}
    /\ Len(Entries(out)) >= 2

Outcomes == {"no_python_files", "no_definitions", "no_unused", "unused_header"}

EmittedOutcomes == { k \in Outcomes : Emitted(out, k) >= 1 }

\* C9 as stated: a run with a valid root emits exactly one of the four outcomes.
C9_ExactlyOneOutcome ==
    Finished => exit_code = 0 /\ Cardinality(EmittedOutcomes) = 1

\* C9, amended: a run with a valid root exits with status 0 and emits exactly
\* one of "no function definitions found" (no definition was collected), "no
\* unused functions detected" (definitions, none unused) and the list (one
\* entry per unused definition); when discovery yields no files, and only
\* then, "no files found" is emitted as well, before "no function definitions
\* found", with definitions and used_names empty.  A run exits with a status
\* other than 0 only when the root path is empty or no directory, and then it
\* emits none of the outcomes.
C9_RunOutcome ==
    /\ exit_code \in {-1, 0, 1}
    /\ pc = "done" <=> exit_code # -1
    /\ exit_code = 1 <=> pc = "done" /\ ~isdir(project_path)
    /\ pc = "done" /\ ~isdir(project_path) => EmittedOutcomes = {}
    /\ Finished =>
          /\ exit_code = 0
          /\ \A k \in Outcomes : Emitted(out, k) <= 1
          /\ Cardinality(EmittedOutcomes \ {"no_python_files"}) = 1
          /\ "no_python_files" \in EmittedOutcomes <=> python_files = <<>>
          /\ python_files = <<>> =>
                /\ definitions = <<>> /\ used_names = {} /\ unused_functions = <<>>
                /\ ReportOf(out) = << Msg("no_python_files"), Msg("no_definitions") >>
          /\ "no_definitions" \in EmittedOutcomes <=> definitions = <<>>
          /\ "no_unused" \in EmittedOutcomes <=> definitions # <<>> /\ unused_functions = <<>>
          /\ "unused_header" \in EmittedOutcomes <=> unused_functions # <<>>
          /\ Len(Entries(out)) = Len(unused_functions)

\* A run over a folder in which discovery finds no file.
C9_Witness ==
    /\ Finished
    /\ python_files = <<>>
    /\ fs.sub # {}
    /\ EmittedOutcomes = {"no_python_files", "no_definitions"}

-----------------------------------------------------------------------------
(* folder_size.py *)

\* An entry of the folder: a file with its size, a subfolder with the sizes of
\* the files below it in os.walk order, or something that is neither.
Entry(name, kind, sizes) == [name |-> name, kind |-> kind, sizes |-> sizes]

EntryNames == { <<"a">>, <<"B">>, <<"b">>, <<"c">> }

EntryShapes ==
    { [kind |-> "file", sizes |-> <<1>>], [kind |-> "file", sizes |-> <<131072>>],
      [kind |-> "dir", sizes |-> <<1, 1>>], [kind |-> "other", sizes |-> <<>>] }

\* The listings os.listdir can return: distinct names in any order.
RECURSIVE Listings(_, _)
Listings(names, n) ==
    IF n = 0 THEN { <<>> }
    ELSE { <<>> } \cup
         UNION { { <<Entry(x, sh.kind, sh.sizes)>> \o l : sh \in EntryShapes,
                                                         l \in Listings(names \ {x}, n - 1) } :
                 x \in names }

Folders ==
    { NoFolder, [exists |-> TRUE, readable |-> FALSE, entries |-> <<>>] }
    \cup { [exists |-> TRUE, readable |-> TRUE, entries |-> l] : l \in Listings(EntryNames, MaxEntries) }

\* get_folder_size: the sum of the sizes of the files below the folder.
RECURSIVE get_folder_size(_)
get_folder_size(sizes) ==
    IF sizes = <<>> THEN 0 ELSE Head(sizes) + get_folder_size(Tail(sizes))

\* "%.2f" of n / d: to the nearest hundredth, a tie going to the even digit.
Hundredths(n, d) ==
    LET q == (n * 100) \div d
        r == (n * 100) % d
    IN  IF 2 * r > d \/ (2 * r = d /\ q % 2 = 1) THEN q + 1 ELSE q

\* format_size: hundredths of the unit, and the unit.
format_size(size_in_bytes) ==
    IF size_in_bytes < 1024 * 1024 * 1024
    THEN [hundredths |-> Hundredths(size_in_bytes, 1024 * 1024), unit |-> "MB"]
    ELSE [hundredths |-> Hundredths(size_in_bytes, 1024 * 1024 * 1024), unit |-> "GB"]

Item(name, size) == [name |-> name, size |-> size]

\* Whether list.sort puts x before y: by size with reverse=True, or by the
\* lower-cased name.
Before(sort_by, x, y) ==
    IF sort_by = "size" THEN y.size < x.size
    ELSE StrLess(lower(x.name), lower(y.name))

\* list.sort is stable, with reverse=True too: an element goes after every
\* element already placed that it does not have to precede.
RECURSIVE InsertBy(_, _, _)
InsertBy(placed, x, sort_by) ==
    IF placed = <<>> THEN <<x>>
    ELSE IF Before(sort_by, x, Head(placed)) THEN <<x>> \o placed
    ELSE <<Head(placed)>> \o InsertBy(Tail(placed), x, sort_by)

RECURSIVE SortBy(_, _, _)
SortBy(placed, rest, sort_by) ==
    IF rest = <<>> THEN placed
    ELSE SortBy(InsertBy(placed, Head(rest), sort_by), Tail(rest), sort_by)

\* list_folder_contents on a folder that can be listed.
list_folder_contents(entries, sort_by) ==
    LET listed == SelectSeq(entries, LAMBDA e : e.kind \in {"dir", "file"})
        folder_contents ==
            [i \in 1..Len(listed) |->
                IF listed[i].kind = "dir"
                THEN Item(listed[i].name, get_folder_size(listed[i].sizes))
                ELSE Item(listed[i].name, listed[i].sizes[1])]
    IN  SortBy(<<>>, folder_contents, sort_by)

FolderLine(kind, name, size) ==
    [kind |-> kind, name |-> name, file |-> <<>>, lineno |-> 0, size |-> size]
NoSize == [hundredths |-> 0, unit |-> ""]

\* main: the path typed does not exist or is no folder.
FolderMainInvalid ==
    /\ pc = "folder_start"
    /\ ~folder.exists
    /\ out' = Append(out, FolderLine("not_a_folder", <<>>, NoSize))
    /\ pc' = "folder_done"
    /\ UNCHANGED <<mainVarsButOut, collectorVars, folderVars>>

\* main on an existing folder: the choice, an integer, is read and mapped to
\* the sort_by that list_folder_contents is called with, and the contents are
\* printed.
FolderMain ==
    /\ pc = "folder_start"
    /\ folder.exists
    /\ LET invalid == choice_typed \notin {1, 2}
           passed == IF invalid THEN "name"
                     ELSE IF choice_typed = 1 THEN "name"
                     ELSE "size"
           listing == IF folder.readable
                      THEN list_folder_contents(folder.entries, passed)
                      ELSE <<>>
       IN  /\ sort_choice' = passed
           /\ contents' = listing
           /\ out' = out
                \o <<FolderLine("folder_header", <<>>, NoSize)>>
                \o (IF invalid
                    THEN << FolderLine("invalid_choice", <<>>, NoSize),
                            FolderLine("something_went_wrong", <<>>, NoSize) >>
                    ELSE <<>>)
                \o (IF folder.readable THEN <<>>
                    ELSE <<FolderLine("listing_error", <<>>, NoSize)>>)
                \o (IF listing # <<>>
                    THEN <<FolderLine("contents_header", <<>>, NoSize)>>
                         \o [i \in 1..Len(listing) |->
                               FolderLine("item", listing[i].name, format_size(listing[i].size))]
                    ELSE <<FolderLine("no_contents", <<>>, NoSize)>>)
    /\ pc' = "folder_done"
    /\ UNCHANGED <<mainVarsButOut, collectorVars, folder, choice_typed>>

InitFolder ==
    /\ CollectorsIdle
    /\ fs = NoFs /\ project_path = <<>> /\ venv_input = <<>>
    /\ python_files = <<>> /\ idx = 0 /\ definitions = <<>> /\ used_names = {}
    /\ unused_functions = <<>> /\ out = <<>> /\ exit_code = -1 /\ first_run = <<>>
    /\ pc = "folder_start"
    /\ folder \in Folders
    /\ choice_typed \in 0..3
    /\ sort_choice = ""
    /\ contents = <<>>

NextFolder == FolderMainInvalid \/ FolderMain

SpecFolder == InitFolder /\ [][NextFolder]_vars

SortedBySize(items) ==
    \A i \in 1..(Len(items) - 1) : items[i].size >= items[i + 1].size

SortedByName(items) ==
    \A i \in 1..(Len(items) - 1) :
        lower(items[i].name) = lower(items[i + 1].name)
            \/ LexLess(lower(items[i].name), lower(items[i + 1].name))

\* C10: for an existing folder, after 1 was typed the entries are listed by
\* size, largest first; after 2 by name, ignoring case; after any other
\* integer by name, following the 'Invalid choice' message.
C10_SortChoice ==
    pc = "folder_done" /\ folder.exists /\ folder.readable =>
        /\ choice_typed = 1 => SortedBySize(contents)
        /\ choice_typed = 2 => SortedByName(contents)
        /\ choice_typed \notin {1, 2} =>
              /\ SortedByName(contents)
              /\ Emitted(out, "invalid_choice") = 1

=============================================================================
